---- MODULE Spec2Model ----
(***************************************************************************)
(* CureSight triage backend (src/main.py): the rule-driven triage engine,  *)
(* the admin token authenticator and the Rule/Content stores it gates, and *)
(* the three analyze handlers with their redaction and relevance filter.   *)
(*                                                                         *)
(* A Python str is a sequence of one-character strings, so that `in`       *)
(* (substring), lower(), strip() and splitlines() are computed on          *)
(* characters.  An Optional value is a sequence of length at most one:     *)
(* None is <<>> and a present value v is <<v>>.                            *)
(***************************************************************************)
EXTENDS Integers, Sequences, FiniteSets, TLC

VARIABLES
    rules,          \* data/rules.json, as load_rules() returns it
    content,        \* data/content.json, as load_content() returns it
    now,            \* datetime.now(timezone.utc), in ticks since the epoch
    issued,         \* the tokens admin_login has returned so far
    db,             \* the documents create_document has stored, oldest first
    ADMIN_USERNAME, \* os.getenv('ADMIN_USERNAME'), read once at start
    Image,          \* TRUE iff `from PIL import Image` succeeded
    pytesseract,    \* TRUE iff `import pytesseract` succeeded
    last            \* the last request served and the response it got

vars == <<rules, content, now, issued, db, ADMIN_USERNAME, Image, pytesseract, last>>

----------------------------------------------------------------------------
\* Bounds of the model.

\* Most words (TextAtoms) concatenated into one request text.
MaxWords == 2
\* Clock ticks per second (datetime.now() is finer than the token's int seconds).
TicksPerSecond == 2
\* How far past one expiry window the clock runs, in ticks.
MaxSlack == 3
\* Most tokens logins hand out in one run.
MaxTokens == 2

----------------------------------------------------------------------------
\* Optional values and strings.

None == <<>>
Some(v) == <<v>>

UpperChars == <<"A","B","C","D","E","F","G","H","I","J","K","L","M","N","O","P","Q","R","S","T","U","V","W","X","Y","Z">>
LowerChars == <<"a","b","c","d","e","f","g","h","i","j","k","l","m","n","o","p","q","r","s","t","u","v","w","x","y","z">>

\* str.lower() on one character.
LowerOf == [c \in { UpperChars[i] : i \in 1..Len(UpperChars) } |->
              LowerChars[CHOOSE i \in 1..Len(UpperChars) : UpperChars[i] = c]]
LowerChar(c) == IF c \in DOMAIN LowerOf THEN LowerOf[c] ELSE c

\* str.lower()
lower(s) == [i \in 1..Len(s) |-> LowerChar(s[i])]

\* Python's `needle in hay` on str: substring, and '' is in every str.
Contains(hay, needle) ==
    \E i \in 1..(Len(hay) - Len(needle) + 1) :
        \A j \in 1..Len(needle) : hay[i + j - 1] = needle[j]

\* any(w in t for w in words)
AnyIn(words, t) == \E w \in words : Contains(t, w)

----------------------------------------------------------------------------
\* Defaults written to the data files when they do not exist.

Str(s) == [isStr |-> TRUE, s |-> s]
\* A JSON number, boolean, null, list or object as a list entry: not a str.
NotStr == [isStr |-> FALSE, s |-> <<>>]

DEFAULT_RULES ==
    [kind |-> "list",
     items |-> << Str(<<"c","h","e","s","t"," ","p","a","i","n">>), Str(<<"s","h","o","r","t","n","e","s","s"," ","o","f"," ","b","r","e","a","t","h">>),
                  Str(<<"l","o","s","s"," ","o","f"," ","c","o","n","s","c","i","o","u","s","n","e","s","s">>), Str(<<"s","e","v","e","r","e"," ","b","l","e","e","d","i","n","g">>),
                  Str(<<"s","t","r","o","k","e">>), Str(<<"s","u","i","c","i","d","a","l">>), Str(<<"a","n","a","p","h","y","l","a","x","i","s">>),
                  Str(<<"b","l","u","e"," ","l","i","p","s">>), Str(<<"s","e","v","e","r","e"," ","a","l","l","e","r","g","i","c">>), Str(<<"p","o","i","s","o","n">>) >>]

DEFAULT_CONTENT ==
    [self_care |-> Some("Based on your symptoms, home care may be sufficient. Rest, hydrate, and monitor your symptoms."),
     consult   |-> Some("Please consult a qualified healthcare professional for evaluation within 24-48 hours."),
     emergency |-> Some("This may be an emergency. Seek immediate medical attention or call local emergency services.")]

\* rules.get('red_flags', [])
RulesGetRedFlags(r) == IF r.kind = "absent" THEN [kind |-> "list", items |-> <<>>] ELSE r

----------------------------------------------------------------------------
\* The triage engine.

RespiratoryTerms == { <<"f","e","v","e","r">>, <<"c","o","l","d">>, <<"c","o","u","g","h">>, <<"s","o","r","e"," ","t","h","r","o","a","t">> }
CardiacTerms     == { <<"c","h","e","s","t">>, <<"h","e","a","r","t">>, <<"p","a","l","p","i","t","a","t","i","o","n">> }
DermatologyTerms == { <<"r","a","s","h">>, <<"i","t","c","h">>, <<"a","l","l","e","r","g","y">> }
MediumTerms      == { <<"m","o","d","e","r","a","t","e">>, <<"s","e","v","e","r","e">>, <<"h","i","g","h">>, <<"i","n","t","e","n","s","e">>, <<"c","a","n","n","o","t"," ","s","l","e","e","p">> }
HighTerms        == { <<"u","n","b","e","a","r","a","b","l","e">>, <<"f","a","i","n","t","e","d">>, <<"b","l","e","e","d","i","n","g">>, <<"b","l","u","e"," ","l","i","p","s">>, <<"n","o","t"," ","b","r","e","a","t","h","i","n","g">> }

ReasonPrefix == <<"R","e","d"," ","f","l","a","g"," ","t","r","i","g","g","e","r","e","d",":"," ">>

\* CategoryOf with the first matching group kept instead of the last.
CategoryOf_FirstMatchWins(t) ==
    IF AnyIn(RespiratoryTerms, t) THEN "respiratory"
    ELSE IF AnyIn(CardiacTerms, t) THEN "cardiac"
    ELSE IF AnyIn(DermatologyTerms, t) THEN "dermatology"
    ELSE "general"

\* Lines 157-165: three independent ifs, each overwriting the category.
CategoryOf(t) ==
    LET c0 == "general"
        c1 == IF AnyIn(RespiratoryTerms, t) THEN "respiratory" ELSE c0
        c2 == IF AnyIn(CardiacTerms, t) THEN "cardiac" ELSE c1
        c3 == IF AnyIn(DermatologyTerms, t) THEN "dermatology" ELSE c2
    IN  c3

\* Lines 167-171: two independent ifs, each overwriting the severity.
SeverityOf(t) ==
    LET s0 == "low"
        s1 == IF AnyIn(MediumTerms, t) THEN "medium" ELSE s0
        s2 == IF AnyIn(HighTerms, t) THEN "high" ELSE s1
    IN  s2

\* RedFlagScan comparing the phrase as stored, without flag.lower().
RECURSIVE RedFlagScan_CaseSensitive(_, _, _)
RedFlagScan_CaseSensitive(items, t, i) ==
    IF i > Len(items) THEN [exc |-> "none", hit |-> FALSE, flag |-> <<>>]
    ELSE IF ~items[i].isStr THEN [exc |-> "AttributeError", hit |-> FALSE, flag |-> <<>>]
    ELSE IF Contains(t, items[i].s) THEN [exc |-> "none", hit |-> TRUE, flag |-> items[i].s]
    ELSE RedFlagScan_CaseSensitive(items, t, i + 1)

\* The for loop of lines 177-182 from entry i on: the first entry whose
\* lower() is in t stops the loop; an entry that is not a str has no lower().
RECURSIVE RedFlagScan(_, _, _)
RedFlagScan(items, t, i) ==
    IF i > Len(items) THEN [exc |-> "none", hit |-> FALSE, flag |-> <<>>]
    ELSE IF ~items[i].isStr THEN [exc |-> "AttributeError", hit |-> FALSE, flag |-> <<>>]
    ELSE IF Contains(t, lower(items[i].s)) THEN [exc |-> "none", hit |-> TRUE, flag |-> items[i].s]
    ELSE RedFlagScan(items, t, i + 1)

Raised(e) ==
    [exc |-> e, category |-> "", severity |-> "", recommendation |-> None, reason |-> None]

analyze_text_engine(text, r, c) ==
    LET t == lower(text)
        category == CategoryOf(t)
        severity == SeverityOf(t)
        recommendation == IF severity = "low" THEN c.self_care ELSE c.consult
        flags == RulesGetRedFlags(r)
        scan == RedFlagScan(flags.items, t, 1)
        reason == IF scan.hit THEN ReasonPrefix \o scan.flag ELSE <<>>
    IN  IF flags.kind # "list" THEN Raised("TypeError")
        ELSE IF scan.exc # "none" THEN Raised(scan.exc)
        ELSE [exc |-> "none",
              category |-> category,
              severity |-> IF scan.hit THEN "emergency" ELSE severity,
              recommendation |-> IF scan.hit THEN c.emergency ELSE recommendation,
              reason |-> IF reason = <<>> THEN None ELSE Some(reason)]

----------------------------------------------------------------------------
\* Token authenticator.  A user name is the sequence of its dot-free parts
\* ("admin" is <<"admin">>, "admin@clinic.org" is <<"admin@clinic", "org">>),
\* so that token.split('.') is computed from the token's text.

SECRET_KEY == "change-me-secret"
ADMIN_PASSWORD == "curesight"

\* timedelta(days=7)
ExpiryDays == 7
SecondsPerDay == 86400
ExpiryTicks == ExpiryDays * SecondsPerDay * TicksPerSecond

\* hmac.new(key, f"{username}:{ts}", sha256).hexdigest(): equal digests come
\* from equal keys and messages only.
hmac_sha256(key, username, ts) == [key |-> key, user |-> username, ts |-> ts]

\* A token `user.ts.sig`: the user part as typed, the decimal seconds, the digest.
make_token(username, t) ==
    LET ts == t \div TicksPerSecond   \* int(datetime.now().timestamp())
    IN  [user |-> username, ts |-> ts, sig |-> hmac_sha256(SECRET_KEY, username, ts)]

\* len(token.split('.')): the decimal ts and the hex digest hold no dot.
FieldCount(token) == Len(token.user) + 2

\* verify_token without the seven-day check.
verify_token_NoExpiry(token, t) ==
    IF FieldCount(token) # 3 THEN FALSE
    ELSE hmac_sha256(SECRET_KEY, <<token.user[1]>>, token.ts) = token.sig

verify_token(token, t) ==
    IF FieldCount(token) # 3 THEN FALSE          \* unpacking raises ValueError
    ELSE LET username == <<token.user[1]>>
             expected == hmac_sha256(SECRET_KEY, username, token.ts)
         IN  IF expected # token.sig THEN FALSE
             ELSE t - token.ts * TicksPerSecond < ExpiryTicks

----------------------------------------------------------------------------
\* Admin handlers.  Every handler records the request it served in `last`.

admin_login(username, password) ==
    /\ (username = ADMIN_USERNAME /\ password = ADMIN_PASSWORD) =>
           (make_token(username, now) \in issued \/ Cardinality(issued) < MaxTokens)
    /\ IF username = ADMIN_USERNAME /\ password = ADMIN_PASSWORD
       THEN LET token == make_token(username, now)
            IN  /\ issued' = issued \cup {token}
                /\ last' = [op |-> "login", username |-> username, password |-> password,
                            status |-> 200, token |-> Some(token)]
       ELSE /\ issued' = issued
            /\ last' = [op |-> "login", username |-> username, password |-> password,
                        status |-> 401, token |-> None]
    /\ UNCHANGED <<rules, content, now, db, ADMIN_USERNAME, Image, pytesseract>>

update_rules(token, payload) ==
    /\ IF verify_token(token, now)
       THEN /\ rules' = payload          \* save_rules(payload)
            /\ last' = [op |-> "update_rules", token |-> token, payload |-> payload, status |-> 200]
       ELSE /\ rules' = rules            \* require_admin raises 401
            /\ last' = [op |-> "update_rules", token |-> token, payload |-> payload, status |-> 401]
    /\ UNCHANGED <<content, now, issued, db, ADMIN_USERNAME, Image, pytesseract>>

update_content_route(token, payload) ==
    /\ IF verify_token(token, now)
       THEN /\ content' = payload        \* save_content(payload)
            /\ last' = [op |-> "update_content", token |-> token, payload |-> payload, status |-> 200]
       ELSE /\ content' = content
            /\ last' = [op |-> "update_content", token |-> token, payload |-> payload, status |-> 401]
    /\ UNCHANGED <<rules, now, issued, db, ADMIN_USERNAME, Image, pytesseract>>

\* Time passes between requests.  The clock is explored around the start and
\* around one expiry window later.
Tick(d) ==
    /\ now + d <= ExpiryTicks + MaxSlack
    /\ d = 1 => now % (ExpiryTicks - 1) < MaxSlack
    /\ now' = now + d
    /\ UNCHANGED <<rules, content, issued, db, ADMIN_USERNAME, Image, pytesseract, last>>

\* One call of the triage engine on the stored rules and content.
Classify(text) ==
    /\ last' = [op |-> "classify", text |-> text,
                result |-> analyze_text_engine(text, rules, content)]
    /\ UNCHANGED <<rules, content, now, issued, db, ADMIN_USERNAME, Image, pytesseract>>

----------------------------------------------------------------------------
\* Redaction and relevance filter.

Whitespace == { " ", "\n", "\t" }

RECURSIVE LStrip(_)
LStrip(s) == IF s # <<>> /\ Head(s) \in Whitespace THEN LStrip(Tail(s)) ELSE s
RECURSIVE RStrip(_)
RStrip(s) == IF s # <<>> /\ s[Len(s)] \in Whitespace THEN RStrip(SubSeq(s, 1, Len(s) - 1)) ELSE s
\* str.strip()
strip(s) == LStrip(RStrip(s))

\* str.splitlines(), the line boundary being "\n".
RECURSIVE splitlines(_)
splitlines(s) ==
    IF s = <<>> THEN <<>>
    ELSE IF \E i \in 1..Len(s) : s[i] = "\n"
         THEN LET i == CHOOSE i \in 1..Len(s) : s[i] = "\n" /\ \A j \in 1..(i - 1) : s[j] # "\n"
              IN  <<SubSeq(s, 1, i - 1)>> \o splitlines(SubSeq(s, i + 1, Len(s)))
         ELSE <<s>>

\* "\n".join(lines)
RECURSIVE JoinLines(_)
JoinLines(lines) ==
    IF lines = <<>> THEN <<>>
    ELSE IF Len(lines) = 1 THEN lines[1]
    ELSE lines[1] \o <<"\n">> \o JoinLines(Tail(lines))

\* The pattern of line 111 is the raw string
\*   \\b(DOB|D.O.B|Date of Birth)[:\\- ]*\\d{1,2}[\\/\\-]\\d{1,2}[\\/\\-]\\d{2,4}
\* whose first class [:\\- ] reads: ":", then the range from an escaped
\* backslash (code 92) to a space (code 32).
DobClassRangeFrom == 92
DobClassRangeTo == 32

\* re.sub compiles its pattern first; a class range that runs backwards is
\* re.error "bad character range".
BadCharacterRange(from, to) == from > to

\* The substitutions run in order (lines 105, 107, 109, 111, 113) and the
\* fourth cannot compile its pattern, so the call raises whatever the text.
\* Each of the five patterns needs a literal backslash in its subject
\* (\\. in the first, \\d in the second, \\b in the others), so on text
\* without one no substitution would replace anything.
strip_pii(text) ==
    IF BadCharacterRange(DobClassRangeFrom, DobClassRangeTo)
    THEN [exc |-> "re.error", text |-> <<>>]
    ELSE [exc |-> "none", text |-> text]

MedicalKeywords ==
    { <<"t","a","b">>, <<"t","a","b","l","e","t">>, <<"c","a","p">>, <<"c","a","p","s","u","l","e">>, <<"s","y","r","u","p">>, <<"m","l">>, <<"m","g">>, <<"m","c","g">>,
      <<"b","i","d">>, <<"t","i","d">>, <<"q","i","d">>, <<"o","d">>, <<"d","i","a","g","n","o","s","i","s">>, <<"d","x">>, <<"r","x">>, <<"b","p">>, <<"h","r">>,
      <<"t","e","m","p">>, <<"f","e","v","e","r">>, <<"c","o","u","g","h">>, <<"p","a","i","n">>, <<"i","n","f","e","c","t","i","o","n">>, <<"a","s","t","h","m","a">>, <<"d","i","a","b","e","t","e","s">> }

\* lines[:10]
FallbackLines == 10

filter_medically_relevant(text) ==
    LET raw == splitlines(text)
        NonBlank(l) == strip(l) # <<>>
        kept0 == SelectSeq(raw, NonBlank)
        lines == [i \in 1..Len(kept0) |-> strip(kept0[i])]
        Relevant(l) == AnyIn(MedicalKeywords, lower(l))
        kept == SelectSeq(lines, Relevant)
    IN  JoinLines(IF kept = <<>>
                  THEN SubSeq(lines, 1, IF Len(lines) < FallbackLines THEN Len(lines) ELSE FallbackLines)
                  ELSE kept)

\* The placeholder: no speech-to-text engine is wired in.
basic_transcribe(audio) == <<>>

----------------------------------------------------------------------------
\* Analyze handlers.  `dbFails` says whether create_document raises when it
\* is called; a response is [status, body], the body present on 200 only.

Failed(op, req, status) == [op |-> op, req |-> req, status |-> status, body |-> None]

\* The tail the three handlers share (lines 269-282, 298-311, 343-356):
\* build the document, try to store it, answer with the analysis and the
\* document id.  AnalyzeOut declares recommendation a str, so a missing one
\* fails the response.
Answer(op, req, analysis, doc, dbFails) ==
    LET qid == IF dbFails THEN None ELSE Some(Len(db) + 1)
    IN  /\ db' = IF dbFails THEN db ELSE Append(db, doc)
        /\ last' = IF analysis.recommendation = None
                   THEN Failed(op, req, 500)
                   ELSE [op |-> op, req |-> req, status |-> 200,
                         body |-> Some([category |-> analysis.category,
                                        severity |-> analysis.severity,
                                        recommendation |-> analysis.recommendation,
                                        reason |-> analysis.reason,
                                        query_id |-> qid])]

analyze_text(text, dbFails) ==
    LET req == [text |-> text, dbFails |-> dbFails]
        base_text == strip(text)
        pii_stripped == strip_pii(base_text)
        relevant == filter_medically_relevant(pii_stripped.text)
        combined == relevant
        analysis == analyze_text_engine(combined, rules, content)
        doc == [input_type |-> "text", symptom_text |-> Some(base_text), ocr_text |-> None,
                combined_text |-> Some(combined), analysis |-> analysis]
    IN  /\ IF base_text = <<>>
           THEN last' = Failed("analyze_text", req, 400) /\ db' = db
           ELSE IF pii_stripped.exc # "none" \/ analysis.exc # "none"
           THEN last' = Failed("analyze_text", req, 500) /\ db' = db
           ELSE Answer("analyze_text", req, analysis, doc, dbFails)
        /\ UNCHANGED <<rules, content, now, issued, ADMIN_USERNAME, Image, pytesseract>>

analyze_audio(symptoms, dbFails) ==
    LET req == [symptoms |-> symptoms, dbFails |-> dbFails]
        transcript == basic_transcribe(<<>>)
        joined == (IF symptoms = None THEN <<>> ELSE symptoms[1])
                  \o (IF transcript # <<>> THEN <<" ">> \o transcript ELSE <<>>)
        base_text == strip(joined)
        pii == strip_pii(base_text)
        relevant == filter_medically_relevant(pii.text)
        combined == relevant
        analysis == analyze_text_engine(combined, rules, content)
        doc == [input_type |-> "audio", symptom_text |-> symptoms, ocr_text |-> None,
                combined_text |-> Some(combined), analysis |-> analysis]
    IN  /\ IF base_text = <<>>
           THEN last' = Failed("analyze_audio", req, 400) /\ db' = db
           ELSE IF pii.exc # "none" \/ analysis.exc # "none"
           THEN last' = Failed("analyze_audio", req, 500) /\ db' = db
           ELSE Answer("analyze_audio", req, analysis, doc, dbFails)
        /\ UNCHANGED <<rules, content, now, issued, ADMIN_USERNAME, Image, pytesseract>>

\* `readable`: Image.open accepts the bytes; `ocr`: what image_to_string
\* does with the image when pytesseract is there.
analyze_image(readable, ocr, symptoms, dbFails) ==
    LET req == [readable |-> readable, ocr |-> ocr, symptoms |-> symptoms, dbFails |-> dbFails]
        extracted == strip(IF ~pytesseract \/ ocr.raises THEN <<>> ELSE ocr.text)
        pii == strip_pii(extracted)
        relevant_rx == filter_medically_relevant(pii.text)
        base_text == strip(strip(IF symptoms = None THEN <<>> ELSE symptoms[1])
                           \o <<"\n">> \o relevant_rx)
        analysis == analyze_text_engine(base_text, rules, content)
        doc == [input_type |-> "image", symptom_text |-> symptoms, ocr_text |-> Some(relevant_rx),
                combined_text |-> Some(base_text), analysis |-> analysis]
    IN  /\ IF ~Image
           THEN last' = Failed("analyze_image", req, 500) /\ db' = db
           ELSE IF ~readable
           THEN last' = Failed("analyze_image", req, 400) /\ db' = db
           ELSE IF pii.exc # "none"
           THEN last' = Failed("analyze_image", req, 500) /\ db' = db
           ELSE IF base_text = <<>>
           THEN last' = Failed("analyze_image", req, 400) /\ db' = db
           ELSE IF analysis.exc # "none"
           THEN last' = Failed("analyze_image", req, 500) /\ db' = db
           ELSE Answer("analyze_image", req, analysis, doc, dbFails)
        /\ UNCHANGED <<rules, content, now, issued, ADMIN_USERNAME, Image, pytesseract>>

\* One call of the redactor.
Redact(text) ==
    /\ last' = [op |-> "strip_pii", text |-> text, result |-> strip_pii(text)]
    /\ UNCHANGED <<rules, content, now, issued, db, ADMIN_USERNAME, Image, pytesseract>>

----------------------------------------------------------------------------
\* Inputs.

\* The strings made of at most n of the given words, in any order.
RECURSIVE WordsUpTo(_, _)
WordsUpTo(words, n) ==
    IF n = 0 THEN { <<>> }
    ELSE LET shorter == WordsUpTo(words, n - 1)
         IN  shorter \cup { s \o w : s \in shorter, w \in words }

TriageWords == { <<"c","o","u","g","h">>, <<"c","h","e","s","t"," ","p","a","i","n">>, <<"I","t","c","h">>, <<"s","e","v","e","r","e"," ","S","t","r","o","k","e">>, <<"f","a","i","n","t","e","d">> }
TriageTexts == WordsUpTo(TriageWords, MaxWords)

AdminNames == { <<"admin">>, <<"admin@clinic", "org">> }
LoginNames == AdminNames \cup { <<"guest">> }
Passwords == { ADMIN_PASSWORD, "letmein" }

RulePayloads ==
    { DEFAULT_RULES,
      [kind |-> "list", items |-> << Str(<<"S","T","R","O","K","E">>) >>],
      [kind |-> "list", items |-> << Str(<<>>) >>],
      [kind |-> "list", items |-> << NotStr, Str(<<"S","T","R","O","K","E">>) >>],   \* [5, "STROKE"]
      [kind |-> "list", items |-> << Str(<<"S","T","R","O","K","E">>), NotStr >>],   \* ["STROKE", 5]
      [kind |-> "absent", items |-> <<>>],                          \* {}
      [kind |-> "null", items |-> <<>>] }                           \* {"red_flags": null}

ContentPayloads ==
    { DEFAULT_CONTENT,
      [DEFAULT_CONTENT EXCEPT !.emergency = Some("Call 112 now.")],
      [self_care |-> None, consult |-> DEFAULT_CONTENT.consult, emergency |-> None] }

\* What a client without the server secret can present: a token it was
\* given, one of those with a part changed, or one it signed itself.
Forgeries(token) ==
    { [token EXCEPT !.ts = @ + ExpiryDays * SecondsPerDay],
      [token EXCEPT !.sig.key = "guessed-secret"],
      [token EXCEPT !.user = <<>>],
      [token EXCEPT !.user = <<token.user[1]>>],
      [token EXCEPT !.user = <<"guest">>] }
SelfSigned ==
    LET ts == now \div TicksPerSecond
    IN  [user |-> <<"admin">>, ts |-> ts, sig |-> hmac_sha256("guessed-secret", <<"admin">>, ts)]
PresentableTokens == issued \cup UNION { Forgeries(t) : t \in issued } \cup { SelfSigned }

----------------------------------------------------------------------------
\* Specifications.

Init ==
    /\ rules = DEFAULT_RULES
    /\ content = DEFAULT_CONTENT
    /\ now = 0
    /\ issued = {}
    /\ db = <<>>
    /\ ADMIN_USERNAME \in AdminNames
    /\ Image \in BOOLEAN
    /\ pytesseract \in BOOLEAN
    /\ last = [op |-> "start"]

\* The triage engine under admin edits of the two stores.
InitTriage == Init /\ Image /\ pytesseract
NextTriage ==
    \/ \E u \in LoginNames, p \in Passwords : admin_login(u, p)
    \/ \E t \in issued \cup { SelfSigned }, p \in RulePayloads : update_rules(t, p)
    \/ \E t \in issued \cup { SelfSigned }, p \in ContentPayloads : update_content_route(t, p)
    \/ \E text \in TriageTexts : Classify(text)
SpecTriage == InitTriage /\ [][NextTriage]_vars

\* The token authenticator and the stores it gates, over time.
InitAuth == Init /\ Image /\ pytesseract
NextAuth ==
    \/ \E u \in LoginNames, p \in Passwords : admin_login(u, p)
    \/ \E t \in PresentableTokens : update_rules(t, [kind |-> "absent", items |-> <<>>])
    \/ \E t \in PresentableTokens : update_content_route(t, [DEFAULT_CONTENT EXCEPT !.emergency = None])
    \/ \E d \in { 1, ExpiryTicks - 1 } : Tick(d)
SpecAuth == InitAuth /\ [][NextAuth]_vars

\* The analyze handlers, on the stores as first written.
PipelineWords == { <<"S","t","r","o","k","e","\n">>, <<"f","e","v","e","r">>, <<"a","@","b",".","c","o","m"," ">>, <<"9","8","7","6","5","4","3","2","1","0">>, <<" ">> }
PipelineTexts == WordsUpTo(PipelineWords, MaxWords)
OptionalTexts == { None } \cup { Some(t) : t \in PipelineTexts }
OcrOutcomes ==
    { [raises |-> TRUE, text |-> <<>>],
      [raises |-> FALSE, text |-> <<>>],
      [raises |-> FALSE, text |-> <<"R","x",":"," ","c","o","u","g","h"," ","s","y","r","u","p"," ","5"," ","m","l","\n","J","o","h","n"," ","9","8","7","6","5","4","3","2","1","0">>] }

NextPipeline ==
    \/ \E text \in PipelineTexts, f \in BOOLEAN : analyze_text(text, f)
    \/ \E s \in OptionalTexts, f \in BOOLEAN : analyze_audio(s, f)
    \/ \E r \in BOOLEAN, o \in OcrOutcomes, s \in OptionalTexts, f \in BOOLEAN :
           analyze_image(r, o, s, f)
    \/ \E text \in PipelineTexts : Redact(text)
InitPipeline == Init /\ ADMIN_USERNAME = <<"admin">>
SpecPipeline == InitPipeline /\ [][NextPipeline]_vars

----------------------------------------------------------------------------
\* Properties.

\* The phrases of a stored rules document: the str entries of its red_flags.
StoredPhrases(r) ==
    IF r.kind = "list" THEN { r.items[i].s : i \in { j \in 1..Len(r.items) : r.items[j].isStr } }
    ELSE {}
\* The document is a RuleSet: red_flags is a list of strings (or is left out).
IsRuleSet(r) ==
    r.kind \in { "list", "absent" } /\ \A i \in 1..Len(r.items) : r.items[i].isStr
\* The text holds a stored phrase, whatever the case of either.
HoldsRedFlag(text, r) == \E p \in StoredPhrases(r) : Contains(lower(text), lower(p))

\* C1: on every stored RuleSet, classify answers, and whenever it answers on
\* a text that holds a stored phrase (case-insensitively) the severity is
\* emergency, the reason is present and the recommendation is the stored
\* emergency template, whatever the keyword checks found.
C1_RedFlagOverride ==
    last.op = "classify" =>
        /\ IsRuleSet(rules) => last.result.exc = "none"
        /\ (last.result.exc = "none" /\ HoldsRedFlag(last.text, rules)) =>
              /\ last.result.severity = "emergency"
              /\ last.result.reason # None
              /\ last.result.recommendation = content.emergency

\* A saved upper-case phrase overrides a medium keyword result with the saved
\* emergency template.
C1_Witness ==
    /\ last.op = "classify"
    /\ rules = [kind |-> "list", items |-> << Str(<<"S","T","R","O","K","E">>) >>]
    /\ content.emergency = Some("Call 112 now.")
    /\ HoldsRedFlag(last.text, rules)
    /\ SeverityOf(lower(last.text)) = "medium"
    /\ CategoryOf(lower(last.text)) = "dermatology"
    /\ last.result.severity = "emergency"

\* C2 (as claimed): an analyze_text request whose raw text holds a stored
\* red-flag phrase is answered with severity emergency.
C2_PipelineEmergency ==
    (last.op = "analyze_text" /\ HoldsRedFlag(last.req.text, rules)) =>
        /\ last.status = 200
        /\ last.body[1].severity = "emergency"

\* C4 (as claimed): a token a login returned verifies exactly while less than
\* seven days have passed since its issued_at, from the moment it is issued.
C4_TokenRoundTrip ==
    \A token \in issued :
        verify_token(token, now) <=> (now - token.ts * TicksPerSecond < ExpiryTicks)

\* C5: a store changes only in an update that presents a token a successful
\* login issued less than seven days before, signed with the server secret;
\* a login with wrong credentials issues nothing; an update with any other
\* token is answered 401 and changes neither store.
C5_StoresGated ==
    [][ LET update == last'.op \in { "update_rules", "update_content" }
            genuine == /\ last'.token \in issued
                       /\ now - last'.token.ts * TicksPerSecond < ExpiryTicks
            matching == last'.username = ADMIN_USERNAME /\ last'.password = ADMIN_PASSWORD
        IN  /\ (rules' # rules \/ content' # content) =>
                  /\ update /\ last'.status = 200 /\ genuine
                  /\ last'.token.user = ADMIN_USERNAME
                  /\ last'.token.sig = hmac_sha256(SECRET_KEY, ADMIN_USERNAME, last'.token.ts)
            /\ issued' # issued =>
                  last'.op = "login" /\ matching /\ last'.status = 200
            /\ (now' = now /\ last'.op = "login" /\ ~matching) =>
                  last'.status = 401 /\ last'.token = None /\ issued' = issued
            /\ (now' = now /\ update /\ ~genuine) =>
                  last'.status = 401 /\ rules' = rules /\ content' = content
      ]_vars

\* An update accepted earlier changed the content; the same token, now
\* expired, is refused.
C5_Witness ==
    /\ last.op = "update_rules"
    /\ last.status = 401
    /\ last.token \in issued
    /\ now - last.token.ts * TicksPerSecond >= ExpiryTicks
    /\ content # DEFAULT_CONTENT
    /\ rules = DEFAULT_RULES

\* C6 (as claimed): after any accepted saves classify never raises, and its
\* recommendation is the stored template of its severity, or null when the
\* content document lacks that key.
C6_ClassifyNeverRaises ==
    last.op = "classify" =>
        /\ last.result.exc = "none"
        /\ last.result.recommendation =
              ( IF last.result.severity = "emergency" THEN content.emergency
                ELSE IF last.result.severity = "low" THEN content.self_care
                ELSE content.consult )

\* C7 (as claimed): an analyze request with usable input, served while
\* create_document fails, is answered 200 with a classification and no
\* query_id.
C7_PersistenceFailureHidden ==
    LET usable ==
            \/ last.op = "analyze_text" /\ strip(last.req.text) # <<>>
            \/ last.op = "analyze_audio" /\ last.req.symptoms # None
                  /\ strip(last.req.symptoms[1]) # <<>>
            \/ last.op = "analyze_image" /\ Image /\ last.req.readable
                  /\ last.req.symptoms # None /\ strip(last.req.symptoms[1]) # <<>>
    IN  (usable /\ last.req.dbFails) =>
            /\ last.status = 200
            /\ last.body[1].query_id = None
            /\ last.body[1].severity \in { "low", "medium", "high", "emergency" }

EmailSample == <<"a","@","b",".","c","o","m">>
DigitsSample == <<"9","8","7","6","5","4","3","2","1","0">>

\* C8 (as claimed): redact returns a text without the email and the digit
\* run of its input, with a placeholder for each.
C8_RedactionRemovesAll ==
    last.op = "strip_pii" =>
        /\ last.result.exc = "none"
        /\ ~Contains(last.result.text, EmailSample)
        /\ ~Contains(last.result.text, DigitsSample)
        /\ Contains(last.text, EmailSample) => Contains(last.result.text, <<"[","e","m","a","i","l"," ","r","e","m","o","v","e","d","]">>)
        /\ Contains(last.text, DigitsSample) => Contains(last.result.text, <<"[","p","h","o","n","e"," ","r","e","m","o","v","e","d","]">>)

\* The category the precedence dermatology, cardiac, respiratory gives.
ExpectedCategory(text) ==
    LET t == lower(text)
    IN  IF AnyIn(DermatologyTerms, t) THEN "dermatology"
        ELSE IF AnyIn(CardiacTerms, t) THEN "cardiac"
        ELSE IF AnyIn(RespiratoryTerms, t) THEN "respiratory"
        ELSE "general"

\* C9: on every stored RuleSet classify answers, and whenever it answers the
\* category is dermatology if a dermatology term is in the text, else
\* cardiac if a cardiac term is, else respiratory if a respiratory term is,
\* else general; a red-flag override leaves it so.
C9_CategoryPrecedence ==
    last.op = "classify" =>
        /\ IsRuleSet(rules) => last.result.exc = "none"
        /\ last.result.exc = "none" =>
              last.result.category = ExpectedCategory(last.text)

\* A text with a respiratory and a dermatology term, overridden by a red flag.
C9_Witness ==
    /\ last.op = "classify"
    /\ AnyIn(RespiratoryTerms, lower(last.text))
    /\ AnyIn(DermatologyTerms, lower(last.text))
    /\ last.result.exc = "none"
    /\ last.result.category = "dermatology"
    /\ last.result.severity = "emergency"

\* C10 (as claimed): an image request whose OCR is absent or fails and which
\* carries symptoms text is answered with the classification of that text;
\* with no text from either source it is answered 400.
C10_OcrFailureTolerated ==
    LET noOcr == ~Image \/ ~pytesseract \/ ~last.req.readable \/ last.req.ocr.raises
        symptoms == IF last.req.symptoms = None THEN <<>> ELSE strip(last.req.symptoms[1])
        expected == analyze_text_engine(symptoms, rules, content)
    IN  (last.op = "analyze_image" /\ noOcr) =>
            IF symptoms # <<>>
            THEN /\ last.status = 200
                 /\ last.body[1].category = expected.category
                 /\ last.body[1].severity = expected.severity
            ELSE last.status = 400

====
